---------------------------- MODULE Spec2Model ----------------------------
(***************************************************************************)
(* Model of Contin/contin.c: the regularised inversion of an integral     *)
(* kernel (parameter_alloc, diff2, fun, fun_df, fun_fdf, fun_Hv, contin).  *)
(*                                                                         *)
(* A C double is modelled by an exact rational <<n, d>> in lowest terms    *)
(* with d > 0; d = 0 stands for the IEEE results of a division by zero     *)
(* (<<1,0>> = +inf, <<-1,0>> = -inf, <<0,0>> = NaN or an indeterminate     *)
(* value).  Rounding is not modelled.  C vectors are functions on 0..n-1,  *)
(* so that every index is the index the source uses.                       *)
(***************************************************************************)
EXTENDS Integers, Sequences, FiniteSets, TLC

VARIABLES pc,      \* position of the program
          req,     \* the caller's arguments (samples, alpha, tau0, tau1, m, kernelType)
          p,       \* the parameter struct built by parameter_alloc
          err,     \* error reported to the caller ("none": the code reports none)
          C,       \* contin: the box constraint C.n, C.L, C.U
          M,       \* contin: the minimizer instance (its current point M.x)
          ii,      \* contin: iteration counter
          status,  \* contin: last value of ool_conmin_is_optimal
          s,       \* contin: output vector s
          g,       \* contin: output vector g
          b,       \* contin: output scalar *b
          ret,     \* contin: returned value
          calls,   \* calls made to the external optimizer
          x,       \* evaluators / diff2: the argument vector x
          out      \* evaluators / diff2: what the last call wrote

vars == <<pc, req, p, err, C, M, ii, status, s, g, b, ret, calls, x, out>>

-----------------------------------------------------------------------------
(* Bounds of the model *)

\* largest grid size m drawn (the smallest is 2: diff2 needs two entries)
MaxM == 3
\* largest output length drawn for a direct call of diff2
MaxLen == 5
\* number of samples n of a drawn sample set
NSamples == 2

-----------------------------------------------------------------------------
(* Exact rational arithmetic standing for double arithmetic *)

Abs(a) == IF a < 0 THEN -a ELSE a

Sign(a) == IF a < 0 THEN -1 ELSE IF a = 0 THEN 0 ELSE 1

RECURSIVE GCD(_, _)
GCD(a, c) == IF c = 0 THEN a ELSE GCD(c, a % c)

\* the double with value n/d
Rat(n, d) ==
    IF d = 0 THEN <<Sign(n), 0>>
    ELSE LET k == GCD(Abs(n), Abs(d))
         IN  <<Sign(d) * (n \div k), Abs(d) \div k>>

R(n) == <<n, 1>>
Zero == <<0, 1>>
One == <<1, 1>>
Two == <<2, 1>>
Half == <<1, 2>>
NaN == <<0, 0>>

IsFinite(a) == a[2] # 0

RAdd(a, c) == Rat(a[1] * c[2] + c[1] * a[2], a[2] * c[2])
RNeg(a) == <<-a[1], a[2]>>
RSub(a, c) == RAdd(a, RNeg(c))
RMul(a, c) == Rat(a[1] * c[1], a[2] * c[2])
RDiv(a, c) == Rat(a[1] * c[2], a[2] * c[1])
\* a <= c, for finite a and c
RLe(a, c) == a[1] * c[2] <= c[1] * a[2]
RLt(a, c) == a[1] * c[2] < c[1] * a[2]

\* sum of f[lo] .. f[hi], accumulated in index order like the C loops
RECURSIVE RSum(_, _, _)
RSum(f, lo, hi) == IF hi < lo THEN Zero ELSE RAdd(RSum(f, lo, hi - 1), f[hi])

\* x->size of a vector
Size(vec) == Cardinality(DOMAIN vec)

sqr(a) == RMul(a, a)

-----------------------------------------------------------------------------
(* parameter_alloc *)

\* One kernel entry.  exp and 1/pi are not rational: the entry is kept as the
\* function applied and its exactly computed argument.
Kernel(kernelType, ti, tauj) ==
    IF kernelType = 0
    THEN [fn |-> "exp", arg |-> RNeg(RDiv(ti, tauj))]
    ELSE [fn |-> "M_1_PI*", arg |-> RDiv(tauj, RAdd(sqr(ti), sqr(tauj)))]

QuadWeight_EndAsInterior(j, m, dtau) ==
    IF j = 0 THEN RMul(Half, dtau) ELSE dtau

\* weights for quadrature of integral, trapezoidal rule
QuadWeight(j, m, dtau) ==
    IF j = 0 \/ j = m - 1 THEN RMul(Half, dtau) ELSE dtau

\* the struct parameter_alloc returns; it makes no check of its arguments
parameter_alloc(t, y, var, alpha, tau0, tau1, m, kernelType) ==
    LET n == Size(t)
        dtau == RDiv(RSub(tau1, tau0), R(m - 1))
        tau == [j \in 0..(m - 1) |-> RAdd(tau0, RMul(R(j), dtau))]
    IN  [K |-> [i \in 0..(n - 1) |->
                  [j \in 0..(m - 1) |-> Kernel(kernelType, t[i], tau[j])]],
         y |-> y,
         t |-> t,
         tau |-> tau,
         w |-> [i \in 0..(n - 1) |-> RDiv(One, var[i])],
         c |-> [j \in 0..(m - 1) |-> QuadWeight(j, m, dtau)],
         alpha |-> alpha]

-----------------------------------------------------------------------------
(* diff2: discrete 2nd derivative *)

diff2_RightAsLeft(xv, size) ==
    [i \in 0..(size - 1) |->
        IF i = 0 \/ i = size - 1
        THEN RAdd(RMul(R(-2), xv[0]), xv[1])
        ELSE RAdd(RSub(xv[i - 1], RMul(Two, xv[i])), xv[i + 1])]

\* the interior stencil applied up to the last index: reads x[size] where x
\* has such an entry
diff2_ThroughLastEntry(xv, size) ==
    [i \in 0..(size - 1) |->
        IF i = 0 THEN RAdd(RMul(R(-2), xv[0]), xv[1])
        ELSE RAdd(RSub(xv[i - 1], RMul(Two, xv[i])),
                  IF (i + 1) \in DOMAIN xv THEN xv[i + 1] ELSE Zero)]

\* the vector ddg (of length size = ddg->size) that diff2(x, ddg) writes
diff2(xv, size) ==
    [i \in 0..(size - 1) |->
        IF i = 0 THEN RAdd(RMul(R(-2), xv[0]), xv[1])
        ELSE IF i = size - 1
             THEN RSub(xv[size - 2], RMul(Two, xv[size - 1]))
             ELSE RAdd(RSub(xv[i - 1], RMul(Two, xv[i])), xv[i + 1])]

-----------------------------------------------------------------------------
(* The objective f(g, b) = |y - (A*g + b)|^2 + a^2*|D2 g|^2, x = (g, b) *)

\* the value fun(x, params) returns
fun(xv, q) ==
    LET n == Size(q.y)
        m == Size(xv) - 1
        d2g == diff2(xv, m)
        bb == xv[m]
        z == [i \in 0..(n - 1) |->
                RAdd(bb, RSum([j \in 0..(m - 1) |->
                                 RMul(RMul(q.c[j], q.K[i][j]), xv[j])], 0, m - 1))]
        var == RSum([i \in 0..(n - 1) |->
                       RMul(q.w[i], sqr(RSub(q.y[i], z[i])))], 0, n - 1)
        reg == RSum([i \in 0..(m - 1) |-> sqr(d2g[i])], 0, m - 1)
    IN  RAdd(var, RMul(RMul(q.alpha, q.alpha), reg))

fun_df_NoFactorTwoOnReg(xv, q) ==
    LET n == Size(q.y)
        m == Size(xv) - 1
        d2g == diff2(xv, m)
        d4g == diff2(d2g, m)
        bb == xv[m]
        z == [i \in 0..(n - 1) |->
                RAdd(bb, RSum([j \in 0..(m - 1) |->
                                 RMul(RMul(q.c[j], q.K[i][j]), xv[j])], 0, m - 1))]
        gradi(i) == RSum([j \in 0..(n - 1) |->
                            RMul(RMul(RMul(RMul(Two, q.w[j]), RSub(z[j], q.y[j])),
                                      q.c[i]), q.K[j][i])], 0, n - 1)
        gradm == RSum([j \in 0..(n - 1) |->
                         RMul(RMul(Two, q.w[j]), RSub(z[j], q.y[j]))], 0, n - 1)
    IN  [i \in 0..m |->
            IF i < m
            THEN RAdd(gradi(i), RMul(RMul(q.alpha, q.alpha), d4g[i]))
            ELSE gradm]

\* the vector grad (length m + 1) that fun_df(x, params, grad) writes
fun_df(xv, q) ==
    LET n == Size(q.y)
        m == Size(xv) - 1
        d2g == diff2(xv, m)
        d4g == diff2(d2g, m)
        bb == xv[m]
        z == [i \in 0..(n - 1) |->
                RAdd(bb, RSum([j \in 0..(m - 1) |->
                                 RMul(RMul(q.c[j], q.K[i][j]), xv[j])], 0, m - 1))]
        gradi(i) == RSum([j \in 0..(n - 1) |->
                            RMul(RMul(RMul(RMul(Two, q.w[j]), RSub(z[j], q.y[j])),
                                      q.c[i]), q.K[j][i])], 0, n - 1)
        gradm == RSum([j \in 0..(n - 1) |->
                         RMul(RMul(Two, q.w[j]), RSub(z[j], q.y[j]))], 0, n - 1)
    IN  [i \in 0..m |->
            IF i < m
            THEN RAdd(gradi(i), RMul(RMul(RMul(Two, q.alpha), q.alpha), d4g[i]))
            ELSE gradm]

fun_fdf_GradientDrifted(xv, q) ==
    [f |-> fun(xv, q), grad |-> fun_df_NoFactorTwoOnReg(xv, q)]

\* the value *f and the vector grad that fun_fdf(x, params, f, grad) writes
fun_fdf(xv, q) ==
    LET n == Size(q.y)
        m == Size(xv) - 1
        d2g == diff2(xv, m)
        d4g == diff2(d2g, m)
        bb == xv[m]
        z == [i \in 0..(n - 1) |->
                RAdd(bb, RSum([j \in 0..(m - 1) |->
                                 RMul(RMul(q.c[j], q.K[i][j]), xv[j])], 0, m - 1))]
        var == RSum([i \in 0..(n - 1) |->
                       RMul(q.w[i], sqr(RSub(q.y[i], z[i])))], 0, n - 1)
        reg == RSum([i \in 0..(m - 1) |-> sqr(d2g[i])], 0, m - 1)
        gradi(i) == RSum([j \in 0..(n - 1) |->
                            RMul(RMul(RMul(RMul(Two, q.w[j]), RSub(z[j], q.y[j])),
                                      q.c[i]), q.K[j][i])], 0, n - 1)
        gradm == RSum([j \in 0..(n - 1) |->
                         RMul(RMul(Two, q.w[j]), RSub(z[j], q.y[j]))], 0, n - 1)
    IN  [f |-> RAdd(var, RMul(RMul(q.alpha, q.alpha), reg)),
         grad |-> [i \in 0..m |->
                     IF i < m
                     THEN RAdd(gradi(i),
                               RMul(RMul(RMul(Two, q.alpha), q.alpha), d4g[i]))
                     ELSE gradm]]

\* the vector hv (length m + 1) that fun_Hv(x, params, v, hv) writes
fun_Hv(xv, q, v) ==
    LET n == Size(q.y)
        m == Size(xv) - 1
        d2v == diff2(v, m)
        d4v == diff2(d2v, m)
        H3 == RSum([k \in 0..(n - 1) |-> RMul(Two, q.w[k])], 0, n - 1)
        H2(i) == RSum([k \in 0..(n - 1) |->
                         RMul(RMul(RMul(Two, q.w[k]), q.c[i]), q.K[k][i])], 0, n - 1)
        H1(i, j) == RSum([k \in 0..(n - 1) |->
                            RMul(RMul(RMul(RMul(RMul(Two, q.w[k]), q.c[i]), q.K[k][i]),
                                      q.c[j]), q.K[k][j])], 0, n - 1)
        hvm == RAdd(RMul(H3, v[m]),
                    RSum([i \in 0..(m - 1) |-> RMul(H2(i), v[i])], 0, m - 1))
        hvi(i) == RAdd(RMul(H2(i), v[m]),
                       RSum([j \in 0..(m - 1) |-> RMul(H1(i, j), v[j])], 0, m - 1))
    IN  [i \in 0..m |-> IF i < m THEN RAdd(hvi(i), d4v[i]) ELSE hvm]

-----------------------------------------------------------------------------
(* contin: what it hands to the external optimizer, and what it copies out *)

OOL_SUCCESS == "OOL_SUCCESS"
OOL_CONTINUE == "OOL_CONTINUE"

\* size_t nmax = 100000
nmax == 100000

Constraint_StaleComment(nn) ==
    [n |-> nn,
     L |-> [i \in 0..(nn - 1) |-> R(-3)],
     U |-> [i \in 0..(nn - 1) |-> R(3)]]

\* the box C: C.n = nn, C.L all 0.0, C.U all 100.0
Constraint(nn) ==
    [n |-> nn,
     L |-> [i \in 0..(nn - 1) |-> R(0)],
     U |-> [i \in 0..(nn - 1) |-> R(100)]]

\* the initial iterate X: all 1.0, the background parameter (last entry) 0
InitialPoint(nn) == [i \in 0..(nn - 1) |-> IF i = nn - 1 THEN R(0) ELSE R(1)]

LoopCond_IgnoresStatus(i, st) == i < nmax

\* the condition of the iteration loop
LoopCond(i, st) == i < nmax /\ st = OOL_CONTINUE

Extract_OffsetFromLastAmplitude(q, Mx, gsize) ==
    [s |-> q.tau,
     g |-> [i \in 0..(gsize - 1) |-> Mx[i]],
     b |-> Mx[gsize - 1]]

\* the values contin copies into s, g and *b once the loop has ended
Extract(q, Mx, gsize) ==
    [s |-> q.tau,
     g |-> [i \in 0..(gsize - 1) |-> Mx[i]],
     b |-> Mx[gsize]]

\* the value contin returns, whatever the status
ContinReturn(st) == OOL_SUCCESS

(* The external optimizer (OOL's SPG, not part of this repository): every  *)
(* iterate is the projection of some trial point onto the box it was given, *)
(* and ool_conmin_is_optimal answers OOL_SUCCESS or OOL_CONTINUE.           *)

Project(v, box) ==
    [i \in DOMAIN v |->
        IF RLt(v[i], box.L[i]) THEN box.L[i]
        ELSE IF RLt(box.U[i], v[i]) THEN box.U[i]
        ELSE v[i]]

\* trial points: one outside the box (below it at even indices, above it at
\* odd ones) and a ramp 1, 2, 3, ... inside it
Trials(nn) ==
    { [i \in 0..(nn - 1) |-> IF i % 2 = 0 THEN R(-1) ELSE R(200)],
      [i \in 0..(nn - 1) |-> R(i + 1)] }

OptimalAnswers == {OOL_CONTINUE, OOL_SUCCESS}

-----------------------------------------------------------------------------
(* Values of the variables a specification does not use *)

NoBundle == [alloc |-> FALSE]
NoOut == [op |-> "none"]
NoRequest == [kind |-> "none"]
NoCalls == [set |-> 0, iterate |-> 0, late |-> 0]

\* a buffer of doubles as gsl_vector_alloc leaves it: allocated, not written
Unwritten(len) == [i \in 0..(len - 1) |-> NaN]

ContinIdle ==
    /\ C = [n |-> 0]
    /\ M = [x |-> <<>>]
    /\ ii = 0
    /\ status = "unset"
    /\ s = <<>>
    /\ g = <<>>
    /\ b = NaN
    /\ ret = "unset"
    /\ calls = NoCalls

EvalIdle ==
    /\ x = <<>>
    /\ out = NoOut

-----------------------------------------------------------------------------
(* The caller: parameter_alloc, then contin (main and mexFunction) *)

\* sample sets (t, y, var) of n = NSamples points; var is drawn
SampleSets(varValues) ==
    { [t |-> [i \in 0..(NSamples - 1) |-> R(i)],
       y |-> [i \in 0..(NSamples - 1) |-> Rat(3, i + 1)],
       var |-> v] : v \in [0..(NSamples - 1) -> varValues] }

\* the requests the whole inversion is run on: main's arguments, with the
\* smallest and the largest grid size
MainRequests ==
    { [t |-> sm.t, y |-> sm.y, var |-> sm.var, alpha |-> Rat(1, 100),
       tau0 |-> Rat(1, 10), tau1 |-> R(4), m |-> m, kernelType |-> 0] :
         sm \in SampleSets({One}), m \in {2, MaxM} }

\* the requests parameter_alloc alone is run on
AllocRequests ==
    { [t |-> sm.t, y |-> sm.y, var |-> sm.var, alpha |-> a,
       tau0 |-> t0, tau1 |-> t1, m |-> m, kernelType |-> k] :
         sm \in SampleSets({One, Half, Zero, R(-1)}),
         a \in {Zero, Rat(1, 100)},
         t0 \in {R(-1), Zero, Rat(1, 10), One},
         t1 \in {Two, R(4)},
         m \in 2..MaxM,
         k \in {0, 1} }

InitCaller(requests) ==
    /\ pc = "start"
    /\ req \in requests
    /\ p = NoBundle
    /\ err = "none"
    /\ ContinIdle
    /\ EvalIdle

\* p = parameter_alloc(...); s = gsl_vector_alloc(m); g = gsl_vector_alloc(m); double b
CallParameterAlloc ==
    /\ pc = "start"
    /\ p' = parameter_alloc(req.t, req.y, req.var, req.alpha,
                            req.tau0, req.tau1, req.m, req.kernelType)
    /\ s' = Unwritten(req.m)
    /\ g' = Unwritten(req.m)
    /\ pc' = "allocated"
    /\ UNCHANGED <<req, err, C, M, ii, status, b, ret, calls, x, out>>

\* contin, from its entry to the head of the iteration loop
ContinBegin ==
    /\ pc = "allocated"
    /\ LET nn == Size(g) + 1
       IN  /\ C' = Constraint(nn)
           /\ M' = [x |-> InitialPoint(nn)]
    /\ calls' = [calls EXCEPT !.set = @ + 1]
    /\ ii' = 0
    /\ status' = OOL_CONTINUE
    /\ pc' = "loop"
    /\ UNCHANGED <<req, p, err, s, g, b, ret, x, out>>

\* one pass of the loop: ii++, ool_conmin_minimizer_iterate, ool_conmin_is_optimal
Iterate ==
    /\ pc = "loop"
    /\ LoopCond(ii, status)
    /\ ii' = ii + 1
    /\ \E trial \in Trials(C.n) : M' = [x |-> Project(trial, C)]
    /\ \E answer \in OptimalAnswers : status' = answer
    /\ calls' = [calls EXCEPT !.iterate = @ + 1,
                              !.late = IF status = OOL_CONTINUE THEN @ ELSE @ + 1]
    /\ UNCHANGED <<pc, req, p, err, C, s, g, b, ret, x, out>>

\* the loop condition fails: the copy into s, g, *b and the return
ContinEnd ==
    /\ pc = "loop"
    /\ ~LoopCond(ii, status)
    /\ LET r == Extract(p, M.x, Size(g))
       IN  /\ s' = r.s
           /\ g' = r.g
           /\ b' = r.b
    /\ ret' = ContinReturn(status)
    /\ pc' = "done"
    /\ UNCHANGED <<req, p, err, C, M, ii, status, calls, x, out>>

Init == InitCaller(MainRequests)

Next ==
    \/ CallParameterAlloc
    \/ ContinBegin
    \/ Iterate
    \/ ContinEnd

Spec == Init /\ [][Next]_vars

InitAlloc == InitCaller(AllocRequests)

NextAlloc == CallParameterAlloc

SpecAlloc == InitAlloc /\ [][NextAlloc]_vars

-----------------------------------------------------------------------------
(* Direct calls of the evaluators, as the optimizer and main's check make *)

\* a kernel row with the values of exp(-t/tau) at t = 0 (all 1) or, for
\* t > 0, values increasing with tau inside (0, 1)
KernelRow(kind, m) ==
    IF kind = "ones" THEN [j \in 0..(m - 1) |-> One]
    ELSE [j \in 0..(m - 1) |-> Rat(j + 1, m + 1)]

\* what a sample contributes to a bundle: y_i, var_i and the kernel row i
SampleKinds ==
    { [y |-> Zero, var |-> One, row |-> "ones"],
      [y |-> One, var |-> Half, row |-> "ramp"],
      [y |-> R(3), var |-> One, row |-> "ramp"] }

\* the bundles built by parameter_alloc on the grid [1, 3] from samples of
\* the given kinds, the kernel values replaced by rational ones
BundlesOf(kinds) ==
    { [ parameter_alloc([i \in 0..(NSamples - 1) |-> R(i)],
                        [i \in 0..(NSamples - 1) |-> k[i].y],
                        [i \in 0..(NSamples - 1) |-> k[i].var],
                        a, One, R(3), m, 0)
        EXCEPT !.K = [i \in 0..(NSamples - 1) |-> KernelRow(k[i].row, m)] ] :
      k \in [0..(NSamples - 1) -> kinds],
      a \in {Zero, Half},
      m \in 2..MaxM }

\* the bundles the evaluators are called with
EvalBundles == BundlesOf(SampleKinds)

\* the bundles the evaluators are called with to separate the penalty from
\* the data term: samples of two kinds
PenaltyBundles ==
    BundlesOf({ [y |-> Zero, var |-> One, row |-> "ones"],
                [y |-> One, var |-> Half, row |-> "ramp"] })

\* coefficient vectors of length nn
EvalPoints(nn) == [0..(nn - 1) -> {Zero, One}]

\* directions v of length nn: the unit vectors and the all-ones vector
Directions(nn) ==
    { [i \in 0..(nn - 1) |-> IF i = k THEN One ELSE Zero] : k \in 0..(nn - 1) }
        \cup { [i \in 0..(nn - 1) |-> One] }

InitEvalOn(bundles) ==
    /\ pc = "eval"
    /\ req = NoRequest
    /\ p \in bundles
    /\ err = "none"
    /\ ContinIdle
    /\ x \in EvalPoints(Size(p.c) + 1)
    /\ out = NoOut

InitEval == InitEvalOn(EvalBundles)

InitPenalty == InitEvalOn(PenaltyBundles)

Evaluated(o) ==
    /\ pc = "eval"
    /\ out' = o
    /\ pc' = "evaluated"
    /\ UNCHANGED <<req, p, err, C, M, ii, status, s, g, b, ret, calls, x>>

CallFun == Evaluated([op |-> "fun", f |-> fun(x, p)])

CallFunDf == Evaluated([op |-> "fun_df", grad |-> fun_df(x, p)])

CallFunFdf ==
    LET r == fun_fdf(x, p)
    IN  Evaluated([op |-> "fun_fdf", f |-> r.f, grad |-> r.grad])

CallFunHv ==
    \E v \in Directions(Size(x)) :
        Evaluated([op |-> "fun_Hv", v |-> v, hv |-> fun_Hv(x, p, v)])

NextEval ==
    \/ CallFun
    \/ CallFunDf
    \/ CallFunFdf
    \/ CallFunHv

SpecEval == InitEval /\ [][NextEval]_vars

SpecPenalty == InitPenalty /\ [][NextEval]_vars

-----------------------------------------------------------------------------
(* Direct calls of diff2 *)

\* x_i = a + b*i, i = 0..len-1
Linear(a, bcoef, len) == [i \in 0..(len - 1) |-> RAdd(a, RMul(bcoef, R(i)))]

LinearCoefs == {R(-1), Zero, Half, R(3)}

Diff2Inputs ==
    UNION { { Linear(a, bcoef, len) : a \in LinearCoefs, bcoef \in LinearCoefs }
            \cup [0..(len - 1) -> {Zero, One}] : len \in 2..(MaxLen + 1) }

InitDiff2 ==
    /\ pc = "diff2"
    /\ x \in Diff2Inputs
    /\ req = [x |-> x]
    /\ p = NoBundle
    /\ err = "none"
    /\ ContinIdle
    /\ out = NoOut

\* diff2(x, ddg) with ddg of length size; x has size or size + 1 entries
CallDiff2 ==
    /\ pc = "diff2"
    /\ \E size \in 2..MaxLen :
          /\ Size(x) \in {size, size + 1}
          /\ out' = [op |-> "diff2", size |-> size, ddg |-> diff2(x, size)]
    /\ pc' = "returned"
    /\ UNCHANGED <<req, p, err, C, M, ii, status, s, g, b, ret, calls, x>>

NextDiff2 == CallDiff2

SpecDiff2 == InitDiff2 /\ [][NextDiff2]_vars

-----------------------------------------------------------------------------
(* Claims *)

\* x + h*e_k
Perturb(xv, k, h) == [xv EXCEPT ![k] = RAdd(@, h)]

\* x + v, entry by entry
VAdd(xv, v) == [i \in DOMAIN xv |-> RAdd(xv[i], v[i])]

\* C1: the vector fun_Hv writes is the Hessian of fun applied to v; the
\* gradient being affine in x, fun_df(x+v) - fun_df(x) = fun_Hv(x, v) in each
\* of the m+1 components.
C1_HvIsHessianProduct ==
    out.op = "fun_Hv" =>
        \A i \in DOMAIN x :
            RSub(fun_df(VAdd(x, out.v), p)[i], fun_df(x, p)[i]) = out.hv[i]

\* C2: component k of the gradient fun_df writes is the partial derivative of
\* fun at x: fun(x + h*e_k) - fun(x - h*e_k) = 2*h*grad_k, for every
\* coordinate k in 0..m, the offset coordinate included.
C2_GradientIsDerivative ==
    out.op = "fun_df" =>
        \A k \in DOMAIN x : \A h \in {One, Half} :
            RSub(fun(Perturb(x, k, h), p), fun(Perturb(x, k, RNeg(h)), p))
                = RMul(RMul(Two, h), out.grad[k])

\* C2 witness: a gradient was written whose data part, offset component and
\* regularization part are all non-zero.
C2_Witness ==
    /\ out.op = "fun_df"
    /\ p.alpha # Zero
    /\ diff2(diff2(x, Size(x) - 1), Size(x) - 1)[0] # Zero
    /\ out.grad[0] # Zero
    /\ out.grad[Size(x) - 1] # Zero

\* C3: contin reports the optimizer's termination status verbatim: the value
\* it returns after the iteration budget was exhausted with the status still
\* OOL_CONTINUE is that status, not the value returned after OOL_SUCCESS.
C3_StatusReturnedVerbatim ==
    pc = "done" => ret = status

\* C4: a request with grid size m < 3 fails with InvalidDimension during
\* parameter_alloc, and no call of the optimizer is made for it.
C4_SmallGridRejected ==
    (pc # "start" /\ req.m < 3) =>
        /\ err = "InvalidDimension"
        /\ calls.set = 0
        /\ calls.iterate = 0

\* some variance_i <= 0
BadVariance(r) == \E i \in DOMAIN r.var : ~RLt(Zero, r.var[i])

\* the exponential kernel with some grid point tau_j <= 0
BadGrid(r) ==
    /\ r.kernelType = 0
    /\ \E j \in 0..(r.m - 1) :
          ~RLt(Zero, RAdd(r.tau0, RMul(R(j), RDiv(RSub(r.tau1, r.tau0), R(r.m - 1)))))

\* C5: parameter_alloc returns no bundle built from a variance_i <= 0 or,
\* with the exponential kernel, from a grid point tau_j <= 0: construction
\* ends in InvalidInput, respectively DomainError.
C5_InvalidInputRejected ==
    (pc = "allocated" /\ (BadVariance(req) \/ BadGrid(req))) =>
        /\ p = NoBundle
        /\ err \in (IF BadVariance(req) THEN {"InvalidInput"} ELSE {})
                    \cup (IF BadGrid(req) THEN {"DomainError"} ELSE {})

C7_QuadratureWeights ==
    (pc = "allocated" /\ req.m >= 3 /\ RLt(req.tau0, req.tau1)) =>
        LET m == req.m
            dtau == RDiv(RSub(req.tau1, req.tau0), R(m - 1))
        IN  /\ DOMAIN p.c = 0..(m - 1)
            /\ p.c[0] = RDiv(dtau, Two)
            /\ p.c[m - 1] = RDiv(dtau, Two)
            /\ \A j \in 1..(m - 2) : p.c[j] = dtau
            /\ RSum(p.c, 0, m - 1) = RSub(req.tau1, req.tau0)

\* C7 witness: weights built on a grid of at least 3 points, with a sample
\* set that is not the unit-variance one.
C7_Witness ==
    /\ pc = "allocated"
    /\ req.m >= 3
    /\ req.tau0 = Rat(1, 10)
    /\ req.tau1 = R(4)
    /\ req.var[0] = Half
    /\ p.c[1] = Rat(39, 10 * (req.m - 1))

IsLinear(xv) ==
    \E a \in LinearCoefs, bcoef \in LinearCoefs : xv = Linear(a, bcoef, Size(xv))

\* C8: for an output length m >= 3, diff2 on a linear sequence x_i = a + b*i
\* writes 0 at the interior indices 1..m-2, -2*x_0 + x_1 at index 0 and
\* x_{m-2} - 2*x_{m-1} at index m-1, and leaves x unchanged.
C8_Diff2OnLinear ==
    (out.op = "diff2" /\ out.size >= 3 /\ IsLinear(req.x)) =>
        LET m == out.size
            x0 == req.x
        IN  /\ DOMAIN out.ddg = 0..(m - 1)
            /\ \A i \in 1..(m - 2) : out.ddg[i] = Zero
            /\ out.ddg[0] = RAdd(RMul(R(-2), x0[0]), x0[1])
            /\ out.ddg[m - 1] = RSub(x0[m - 2], RMul(Two, x0[m - 1]))
            /\ x = x0

\* C8 witness: diff2 was applied, with an output one entry shorter than x, to
\* a linear sequence of non-zero slope.
C8_Witness ==
    /\ out.op = "diff2"
    /\ out.size >= 4
    /\ Size(x) = out.size + 1
    /\ IsLinear(req.x)
    /\ x[1] # x[0]
    /\ out.ddg[out.size - 1] # Zero

\* C9: the iteration loop ends for every behaviour of the optimizer: it calls
\* ool_conmin_minimizer_iterate at least once and at most nmax times, and
\* never again once ool_conmin_is_optimal answered other than OOL_CONTINUE.
\* (Every pass makes one call, the calls never exceed nmax, and in the loop
\* either another pass or the exit is possible.)
C9_LoopBounded ==
    /\ calls.iterate = ii
    /\ calls.iterate <= nmax
    /\ calls.late = 0
    /\ (pc = "done" => calls.iterate >= 1)
    /\ (pc = "loop" /\ calls.iterate >= 1 /\ status # OOL_CONTINUE => ~ENABLED Iterate)
    /\ (pc = "loop" => (ENABLED Iterate \/ ENABLED ContinEnd))

\* C9 witness: a run that ended with the optimizer still answering
\* OOL_CONTINUE at the nmax-th pass.
C9_Witness ==
    /\ pc = "done"
    /\ calls.iterate = nmax
    /\ status = OOL_CONTINUE

\* the bundle parameter_alloc builds for each request of the whole inversion
BundleBuilt ==
    [r \in MainRequests |->
        parameter_alloc(r.t, r.y, r.var, r.alpha, r.tau0, r.tau1, r.m, r.kernelType)]

\* C10: contin writes s, g and *b only after the loop has ended, and then s is
\* the bundle's tau grid, g_j entry j of the optimizer's final point for
\* j in 0..m-1, b its entry m, for both outcomes; the bundle p is unchanged.
C10_ResultAfterLoop ==
    /\ (pc \in {"allocated", "loop"} =>
            /\ s = Unwritten(req.m)
            /\ g = Unwritten(req.m)
            /\ b = NaN)
    /\ (pc = "done" =>
            /\ s = p.tau
            /\ DOMAIN g = 0..(req.m - 1)
            /\ \A j \in 0..(req.m - 1) : g[j] = M.x[j]
            /\ b = M.x[req.m])
    /\ (pc \in {"allocated", "loop", "done"} => p = BundleBuilt[req])

\* C10 witness: a converged run whose final point has pairwise different
\* entries was copied out.
C10_Witness ==
    /\ pc = "done"
    /\ status = OOL_SUCCESS
    /\ req.m = MaxM
    /\ g[0] = R(1)
    /\ g[req.m - 1] = R(req.m)
    /\ b = R(req.m + 1)

\* C11: the combined evaluator agrees with the separate ones: fun_fdf(x, p)
\* returns the objective value fun(x, p) returns and writes, component by
\* component, the gradient fun_df(x, p) writes.
C11_CombinedAgrees ==
    out.op = "fun_fdf" =>
        /\ out.f = fun(x, p)
        /\ DOMAIN out.grad = DOMAIN x
        /\ \A i \in DOMAIN x : out.grad[i] = fun_df(x, p)[i]

\* C11 witness: fun_fdf was called where the value is non-zero and the
\* gradient has non-zero data, offset and regularization parts.
C11_Witness ==
    /\ out.op = "fun_fdf"
    /\ p.alpha # Zero
    /\ diff2(diff2(x, Size(x) - 1), Size(x) - 1)[0] # Zero
    /\ out.f # Zero
    /\ out.grad[0] # Zero
    /\ out.grad[Size(x) - 1] # Zero

\* the amplitudes g of x = (g, b): its first m entries
Amplitudes(xv) == [i \in 0..(Size(xv) - 2) |-> xv[i]]

\* the bundle q with the roughness penalty switched off
NoPenalty(q) == [q EXCEPT !.alpha = Zero]

\* the bundle q with the data term switched off
NoData(q) == [q EXCEPT !.w = [i \in DOMAIN q.w |-> Zero]]

\* what the penalty adds to the objective value and to the gradient at xv
PenaltyInValue(xv, q) == RSub(fun(xv, q), fun(xv, NoPenalty(q)))
PenaltyInFdfValue(xv, q) == RSub(fun_fdf(xv, q).f, fun_fdf(xv, NoPenalty(q)).f)
PenaltyInDf(xv, q) ==
    [i \in DOMAIN xv |-> RSub(fun_df(xv, q)[i], fun_df(xv, NoPenalty(q))[i])]
PenaltyInFdfGrad(xv, q) ==
    [i \in DOMAIN xv |-> RSub(fun_fdf(xv, q).grad[i], fun_fdf(xv, NoPenalty(q)).grad[i])]

\* amounts by which the offset entry is changed
OffsetShifts == {One, R(-2)}

\* C12: the roughness penalty acts on the amplitudes only: diff2, given the
\* whole (g, b) with a length-m output, never reads entry m, so vectors that
\* differ only in the offset entry give the same penalty term in fun and
\* fun_fdf, the same D2(D2 g) term in fun_df and fun_fdf and the same
\* D2(D2 v) term in fun_Hv, and the offset component of the gradient and of
\* Hv carries no regularization contribution.
C12_PenaltyOnAmplitudesOnly ==
    LET m == Size(x) - 1
        q0 == NoPenalty(p)
    IN  /\ (out.op \in {"fun", "fun_df", "fun_fdf", "fun_Hv"} =>
              /\ diff2(x, m) = diff2(Amplitudes(x), m)
              /\ \A d \in OffsetShifts : diff2(Perturb(x, m, d), m) = diff2(x, m))
        /\ (out.op = "fun" =>
              LET pen == RSub(out.f, fun(x, q0))
              IN  /\ pen = RMul(sqr(p.alpha),
                                RSum([i \in 0..(m - 1) |->
                                        sqr(diff2(Amplitudes(x), m)[i])], 0, m - 1))
                  /\ \A d \in OffsetShifts : PenaltyInValue(Perturb(x, m, d), p) = pen)
        /\ (out.op = "fun_fdf" =>
              LET r0 == fun_fdf(x, q0)
              IN  /\ out.grad[m] = r0.grad[m]
                  /\ \A d \in OffsetShifts :
                        LET x2 == Perturb(x, m, d)
                        IN  /\ PenaltyInFdfValue(x2, p) = RSub(out.f, r0.f)
                            /\ \A i \in 0..(m - 1) :
                                  PenaltyInFdfGrad(x2, p)[i] = RSub(out.grad[i], r0.grad[i])
                            /\ PenaltyInFdfGrad(x2, p)[m] = Zero)
        /\ (out.op = "fun_df" =>
              LET g0 == fun_df(x, q0)
              IN  /\ out.grad[m] = g0[m]
                  /\ \A d \in OffsetShifts :
                        LET x2 == Perturb(x, m, d)
                        IN  /\ \A i \in 0..(m - 1) :
                                  PenaltyInDf(x2, p)[i] = RSub(out.grad[i], g0[i])
                            /\ PenaltyInDf(x2, p)[m] = Zero)
        /\ (out.op = "fun_Hv" =>
              LET d4v == diff2(diff2(Amplitudes(out.v), m), m)
                  reg == fun_Hv(x, NoData(p), out.v)
              IN  /\ \A i \in 0..(m - 1) : reg[i] = d4v[i]
                  /\ reg[m] = Zero
                  /\ out.hv[m] = fun_Hv(x, q0, out.v)[m]
                  /\ \A d \in OffsetShifts :
                        LET reg2 == fun_Hv(x, NoData(p), Perturb(out.v, m, d))
                        IN  /\ \A i \in 0..(m - 1) : reg2[i] = d4v[i]
                            /\ reg2[m] = Zero)

\* C12 witness: a gradient was written at a point with a non-zero offset
\* entry, where the penalty contributes to the first amplitude component.
C12_Witness ==
    /\ out.op = "fun_df"
    /\ p.alpha # Zero
    /\ x[Size(x) - 1] # Zero
    /\ PenaltyInDf(x, p)[0] # Zero

=============================================================================
